---- MODULE Spec2Model ----
(***************************************************************************)
(* config-init.js: the script that injects HOST_WORKSPACE_ROOT into the    *)
(* OpenClaw configuration file.                                            *)
(*                                                                         *)
(* A JavaScript value is a tree.  It is written here as a function from    *)
(* paths (tuples of property names, <<>> being the value itself) to nodes  *)
(* [type, val]; an object or an array node has its members one level       *)
(* below it.  A file's text is a record [form, doc]: the syntactic form of *)
(* the text and the value the text denotes.                                *)
(***************************************************************************)
EXTENDS Naturals, Sequences, FiniteSets, TLC

VARIABLES env, fs, runs, pc, configPath, hostWorkspaceRoot, configRaw, config,
          exitCode, fsOps, fs0, hist, others, otherText

vars == <<env, fs, runs, pc, configPath, hostWorkspaceRoot, configRaw, config,
          exitCode, fsOps, fs0, hist, others, otherText>>

(* ------------------------------ bounds -------------------------------- *)

\* Successive invocations of the script on the same machine.
MaxRuns == 2
\* Writes to the config file by another process.
MaxOtherWrites == 1

(* --------------------------- JavaScript values ------------------------ *)

Node(t, v) == [type |-> t, val |-> v]
Undefined == Node("undefined", "")
Null == Node("null", "")
False == Node("boolean", "false")
Num(n) == Node("number", n)
Str(s) == Node("string", s)
ObjectNode == Node("object", "")
ArrayNode == Node("array", "")

\* The value that is just the node n.
Leaf(n) == (<< >> :> n)
EmptyObject == Leaf(ObjectNode)

IsPrefix(p, q) == Len(p) <= Len(q) /\ SubSeq(q, 1, Len(p)) = p

\* The node at path p of a value, undefined where there is none.
Get(doc, p) == IF p \in DOMAIN doc THEN doc[p] ELSE Undefined

\* The value below path p of doc.
Subtree(doc, p) ==
    LET below == {q \in DOMAIN doc : IsPrefix(p, q)}
        rel == {SubSeq(q, Len(p) + 1, Len(q)) : q \in below}
    IN  [r \in rel |-> doc[p \o r]]

\* doc with the value at path p replaced by sub (created when missing).
Graft(doc, p, sub) ==
    LET keep == {q \in DOMAIN doc : ~IsPrefix(p, q)}
        new == {p \o r : r \in DOMAIN sub}
    IN  [q \in keep \cup new |->
            IF q \in new THEN sub[SubSeq(q, Len(p) + 1, Len(q))] ELSE doc[q]]

\* ToBoolean: the falsy values are undefined, null, false, 0, NaN and "".
Truthy(n) ==
    ~ \/ n.type \in {"undefined", "null"}
      \/ n = False
      \/ n.type = "number" /\ n.val \in {"0", "NaN"}
      \/ n = Str("")

IsObjectLike(n) == n.type \in {"object", "array"}
IsNullish(n) == n.type \in {"undefined", "null"}
IsIndex(k) == k \in {"0", "1"}

(* ----------------------- statements of the script --------------------- *)

\* The outcome of a statement: the document after it, or a thrown error.
Ok(doc) == [threw |-> FALSE, value |-> doc]
Throw == [threw |-> TRUE, value |-> Leaf(Undefined)]

\* if (!x.k) x.k = {};  with x the value at path p of doc.  Reading a
\* member of undefined or null throws; so does creating a member on a
\* primitive (the file is an ES module, hence strict code).
EnsureMemberOverwrite(doc, p, k) ==
    LET x == Get(doc, p)
    IN  IF IsObjectLike(x) THEN Ok(Graft(doc, p \o <<k>>, EmptyObject)) ELSE Throw
EnsureMemberIfMissing(doc, p, k) ==
    LET x == Get(doc, p)
    IN  IF IsNullish(x) THEN Throw
        ELSE IF p \o <<k>> \in DOMAIN doc THEN Ok(doc)
        ELSE IF IsObjectLike(x) THEN Ok(Graft(doc, p \o <<k>>, EmptyObject))
        ELSE Throw
EnsureMember(doc, p, k) ==
    LET x == Get(doc, p)
    IN  IF IsNullish(x) THEN Throw
        ELSE IF Truthy(Get(doc, p \o <<k>>)) THEN Ok(doc)
        ELSE IF IsObjectLike(x) THEN Ok(Graft(doc, p \o <<k>>, EmptyObject))
        ELSE Throw

\* x.k = v;  with x the value at path p of doc.
AssignMember(doc, p, k, v) ==
    LET x == Get(doc, p)
    IN  IF IsObjectLike(x) THEN Ok(Graft(doc, p \o <<k>>, Leaf(v))) ELSE Throw

InContainerWorkspace == "/workspace"

EnsureAgents(doc) == EnsureMember(doc, << >>, "agents")
EnsureDefaults(doc) == EnsureMember(doc, <<"agents">>, "defaults")
EnsureSandbox(doc) == EnsureMember(doc, <<"agents", "defaults">>, "sandbox")
SetWorkspaceRoot(doc, root) ==
    AssignMember(doc, <<"agents", "defaults", "sandbox">>, "workspaceRoot", root)
SetWorkspace(doc) ==
    AssignMember(doc, <<"agents", "defaults">>, "workspace", Str(InContainerWorkspace))

\* Lines 24-36 as one function of the parsed document.
Patch(doc, root) ==
    LET a == EnsureAgents(doc)
        b == IF a.threw THEN a ELSE EnsureDefaults(a.value)
        c == IF b.threw THEN b ELSE EnsureSandbox(b.value)
        d == IF c.threw THEN c ELSE SetWorkspaceRoot(c.value, root)
    IN  IF d.threw THEN d ELSE SetWorkspace(d.value)

(* ------------------------------ file text ----------------------------- *)

Text(f, doc) == [form |-> f, doc |-> doc]
Absent == Text("absent", Leaf(Undefined))
NoText == Text("none", Leaf(Undefined))
Garbage == Text("garbage", Leaf(Undefined))
Partial == Text("partial", Leaf(Undefined))

\* (new Function('return ' + configRaw))(): strict JSON and relaxed JSON
\* (comments, unquoted keys) evaluate to the value they denote; a text that
\* starts with a line break or a line comment leaves "return" alone on its
\* line, so the call returns undefined; anything else is a SyntaxError.
Evaluate(text) ==
    IF text.form \in {"json", "relaxed"} THEN Ok(text.doc)
    ELSE IF text.form = "newlineFirst" THEN Ok(Leaf(Undefined))
    ELSE Throw

\* The members JSON.stringify serialises: of an array only its elements, so
\* a named property of an array, and all below it, is left out.
Serialised(doc) ==
    LET kept == {q \in DOMAIN doc :
                    \A i \in 1..Len(q) :
                        doc[SubSeq(q, 1, i - 1)].type = "array" => IsIndex(q[i])}
    IN  [q \in kept |-> doc[q]]

\* JSON.stringify(config, null, 2)
Stringify(doc) == Text("json", Serialised(doc))

\* What fs.writeFileSync(path, data) leaves at the path: the data when it
\* succeeds, the old file when it fails to open it (EACCES), a truncated
\* file when it fails after opening it (ENOSPC, EIO).
WriteOutcomes == {"ok", "EACCES", "ENOSPC"}
WrittenAppend(old, data, outcome) ==
    IF outcome = "ok" THEN Garbage
    ELSE IF outcome = "EACCES" THEN old ELSE Partial
Written(old, data, outcome) ==
    IF outcome = "ok" THEN data
    ELSE IF outcome = "EACCES" THEN old ELSE Partial

(* ------------------------- inputs of the model ------------------------ *)

DefaultConfigPath == "/root/.openclaw/openclaw.json"
AltConfigPath == "/etc/openclaw/openclaw.json"
Paths == {DefaultConfigPath, AltConfigPath}

\* process.env.X is undefined when X is unset, else a string.
ConfigPathSettings == {Undefined, Str(""), Str(AltConfigPath)}
HostRootSettings == {Undefined, Str(""), Str("/data"), Str("/home/user/proj")}

\* const configPath = process.env.OPENCLAW_CONFIG_PATH || '/root/.openclaw/openclaw.json'
Resolve(e) ==
    IF Truthy(e.OPENCLAW_CONFIG_PATH) THEN e.OPENCLAW_CONFIG_PATH.val
    ELSE DefaultConfigPath

\* A member that is not there.
Missing == Leaf(Undefined)
With(doc, k, sub) == IF sub = Missing THEN doc ELSE Graft(doc, <<k>>, sub)

ArrayOfOne == Graft(Leaf(ArrayNode), <<"0">>, Leaf(Num("1")))
\* The values that are not mappings: four falsy ones, a truthy primitive
\* and an array.
NonMappings ==
    {Leaf(Null), Leaf(False), Leaf(Num("0")), Leaf(Str("")), Leaf(Str("s")), ArrayOfOne}
OptFoo == {Missing, Leaf(Num("1"))}
SandboxValues ==
    NonMappings \cup
    {With(With(EmptyObject, "foo", f), "workspaceRoot", w) :
        f \in OptFoo, w \in {Missing, Leaf(Str("/data")), Leaf(Str("/old"))}}
DefaultsValues ==
    NonMappings \cup
    {With(With(With(EmptyObject, "foo", f), "workspace", w), "sandbox", s) :
        f \in OptFoo, w \in {Missing, Leaf(Str("/workspace")), Leaf(Str("/old"))},
        s \in SandboxValues \cup {Missing}}
AgentsValues ==
    NonMappings \cup
    {With(With(EmptyObject, "foo", f), "defaults", d) :
        f \in OptFoo, d \in DefaultsValues \cup {Missing}}
Mappings ==
    {With(With(EmptyObject, "foo", f), "agents", a) :
        f \in OptFoo, a \in AgentsValues \cup {Missing}}
Documents == Mappings \cup NonMappings

\* The texts a config file may hold when the script starts.
ConfigTexts ==
    {Text(f, d) : f \in {"json", "relaxed"}, d \in Documents}
    \cup {Garbage, Partial, Text("newlineFirst", EmptyObject)}

\* A few of them, for the runs that another process interleaves with.
FooOnly == With(EmptyObject, "foo", Leaf(Num("1")))
FewTexts ==
    {Text("json", EmptyObject), Text("relaxed", FooOnly), Garbage,
     Text("json", With(EmptyObject, "agents", ArrayOfOne)),
     Text("json", With(EmptyObject, "agents", Leaf(Null)))}
\* What the other process writes.
OtherTexts ==
    {Text("json", With(EmptyObject, "gateway", Leaf(Str("on")))), Garbage}
OtherFile == Text("json", With(EmptyObject, "other", Leaf(Str("file"))))

(* ------------------------------ the state ----------------------------- *)

\* env: the environment the script is started in; fs: the files; runs: the
\* invocations so far; pc: the line the running script is at ("idle" before
\* the first invocation, "exited" after process exit); configPath,
\* hostWorkspaceRoot, configRaw, config: the script's constants of the same
\* names; exitCode: the exit status once pc = "exited"; fsOps: the calls of
\* node:fs the run has made; fs0: the files as the run found them; hist: one
\* record per finished run; others, otherText: the other process's writes,
\* and the text of one that fell between this run's read and its write.

InitWith(texts) ==
    /\ env \in [OPENCLAW_CONFIG_PATH : ConfigPathSettings,
                HOST_WORKSPACE_ROOT : HostRootSettings]
    /\ \E t \in texts \cup {Absent} :
          fs = [p \in Paths |-> IF p = Resolve(env) THEN t ELSE OtherFile]
    /\ runs = 0
    /\ pc = "idle"
    /\ configPath = DefaultConfigPath
    /\ hostWorkspaceRoot = Undefined
    /\ configRaw = NoText
    /\ config = Leaf(Undefined)
    /\ exitCode = 0
    /\ fsOps = << >>
    /\ fs0 = fs
    /\ hist = << >>
    /\ others = 0
    /\ otherText = NoText

Init == InitWith(ConfigTexts)
InitFew == InitWith(FewTexts)

FsOp(op, path, result) == [op |-> op, path |-> path, result |-> result]

\* The result of the run's writeFileSync call, "none" when it made none.
WriteResult(ops) ==
    IF \E i \in 1..Len(ops) : ops[i].op = "writeFileSync"
    THEN (CHOOSE o \in {ops[i] : i \in 1..Len(ops)} : o.op = "writeFileSync").result
    ELSE "none"

\* process.exit(code), or the end of the script (code 0).
Exit(code, files, ops) ==
    /\ pc' = "exited"
    /\ exitCode' = code
    /\ hist' = Append(hist, [exitCode |-> code, file |-> files[configPath],
                             wrote |-> WriteResult(ops)])

\* catch (e) { console.error(...); process.exit(1); }
CatchExitZero(files, ops) == Exit(0, files, ops)
Catch(files, ops) == Exit(1, files, ops)

\* A statement of the try block that touches only config.
Statement(r, next) ==
    /\ IF r.threw
       THEN Catch(fs, fsOps) /\ UNCHANGED config
       ELSE config' = r.value /\ pc' = next /\ UNCHANGED <<exitCode, hist>>
    /\ UNCHANGED <<env, fs, runs, configPath, hostWorkspaceRoot, configRaw,
                   fsOps, fs0, others, otherText>>

\* The script is started: lines 4-5 read the environment.
Invoke ==
    /\ pc \in {"idle", "exited"}
    /\ runs < MaxRuns
    /\ runs' = runs + 1
    /\ configPath' = Resolve(env)
    /\ hostWorkspaceRoot' = env.HOST_WORKSPACE_ROOT
    /\ configRaw' = NoText
    /\ config' = Leaf(Undefined)
    /\ fsOps' = << >>
    /\ fs0' = fs
    /\ otherText' = NoText
    /\ pc' = "L7"
    /\ UNCHANGED <<env, fs, exitCode, hist, others>>

\* if (!hostWorkspaceRoot) { console.warn(...); process.exit(0); }
HostRootMissingUnsetOnly(root) == root = Undefined
HostRootMissing(root) == ~Truthy(root)

CheckHostRoot ==
    /\ pc = "L7"
    /\ IF HostRootMissing(hostWorkspaceRoot)
       THEN Exit(0, fs, fsOps)
       ELSE pc' = "L13" /\ UNCHANGED <<exitCode, hist>>
    /\ UNCHANGED <<env, fs, runs, configPath, hostWorkspaceRoot, configRaw,
                   config, fsOps, fs0, others, otherText>>

\* fs.existsSync(configPath)
ExistsAlways(files, path) == TRUE
Exists(files, path) == files[path] # Absent

\* if (!fs.existsSync(configPath)) { console.error(...); process.exit(0); }
CheckExists ==
    /\ pc = "L13"
    /\ LET found == Exists(fs, configPath)
           ops == Append(fsOps, FsOp("existsSync", configPath,
                                     IF found THEN "true" ELSE "false"))
       IN  /\ fsOps' = ops
           /\ IF found
              THEN pc' = "L18" /\ UNCHANGED <<exitCode, hist>>
              ELSE Exit(0, fs, ops)
    /\ UNCHANGED <<env, fs, runs, configPath, hostWorkspaceRoot, configRaw,
                   config, fs0, others, otherText>>

\* const configRaw = fs.readFileSync(configPath, 'utf8');
ReadFile ==
    /\ pc = "L18"
    /\ LET found == fs[configPath] # Absent
           ops == Append(fsOps, FsOp("readFileSync", configPath,
                                     IF found THEN "ok" ELSE "ENOENT"))
       IN  /\ fsOps' = ops
           /\ IF found
              THEN /\ configRaw' = fs[configPath]
                   /\ pc' = "L21"
                   /\ UNCHANGED <<exitCode, hist>>
              ELSE Catch(fs, ops) /\ UNCHANGED configRaw
    /\ UNCHANGED <<env, fs, runs, configPath, hostWorkspaceRoot, config, fs0,
                   others, otherText>>

\* const config = (new Function('return ' + configRaw))();
Parse == pc = "L21" /\ Statement(Evaluate(configRaw), "L24")

\* if (!config.agents) config.agents = {};
NormalizeAgents == pc = "L24" /\ Statement(EnsureAgents(config), "L25")

\* if (!config.agents.defaults) config.agents.defaults = {};
NormalizeDefaults == pc = "L25" /\ Statement(EnsureDefaults(config), "L26")

\* if (!config.agents.defaults.sandbox) config.agents.defaults.sandbox = {};
NormalizeSandbox == pc = "L26" /\ Statement(EnsureSandbox(config), "L31")

\* config.agents.defaults.sandbox.workspaceRoot = hostWorkspaceRoot;
InjectWorkspaceRoot ==
    pc = "L31" /\ Statement(SetWorkspaceRoot(config, hostWorkspaceRoot), "L36")

\* config.agents.defaults.workspace = "/workspace";
SetInternalWorkspace == pc = "L36" /\ Statement(SetWorkspace(config), "L41")

\* The data line 41 writes, and the path it writes them to.
DataReread(doc, root, files, path) ==
    LET r == Evaluate(files[path])
        patched == IF r.threw THEN r ELSE Patch(r.value, root)
    IN  IF patched.threw THEN Stringify(doc) ELSE Stringify(patched.value)
Data(doc, root, files, path) == Stringify(doc)
WriteTargetDefault(path) == DefaultConfigPath
WriteTarget(path) == path

\* fs.writeFileSync(configPath, JSON.stringify(config, null, 2)); then the
\* script ends (status 0), or the catch block runs when the write threw.
WriteFile ==
    /\ pc = "L41"
    /\ \E outcome \in WriteOutcomes :
          LET target == WriteTarget(configPath)
              data == Data(config, hostWorkspaceRoot, fs, configPath)
              ops == Append(fsOps, FsOp("writeFileSync", target, outcome))
              files == [fs EXCEPT ![target] = Written(fs[target], data, outcome)]
          IN  /\ fs' = files
              /\ fsOps' = ops
              /\ IF outcome = "ok" THEN Exit(0, files, ops) ELSE Catch(files, ops)
    /\ UNCHANGED <<env, runs, configPath, hostWorkspaceRoot, configRaw, config,
                   fs0, others, otherText>>

\* The lines between the script's read of the file and its write.
ReadToWrite == {"L21", "L24", "L25", "L26", "L31", "L36", "L41"}

\* Another process overwrites the config file.
OtherProcessWrite ==
    /\ others < MaxOtherWrites
    /\ others' = others + 1
    /\ \E t \in OtherTexts :
          /\ fs' = [fs EXCEPT ![Resolve(env)] = t]
          /\ otherText' = IF pc \in ReadToWrite THEN t ELSE otherText
    /\ UNCHANGED <<env, runs, pc, configPath, hostWorkspaceRoot, configRaw,
                   config, exitCode, fsOps, fs0, hist>>

Run ==
    \/ Invoke
    \/ CheckHostRoot
    \/ CheckExists
    \/ ReadFile
    \/ Parse
    \/ NormalizeAgents
    \/ NormalizeDefaults
    \/ NormalizeSandbox
    \/ InjectWorkspaceRoot
    \/ SetInternalWorkspace
    \/ WriteFile

Next == Run

NextConcurrent == Run \/ OtherProcessWrite

\* The script alone, invoked MaxRuns times in a row.
Spec == Init /\ [][Next]_vars

\* The script and another process that writes the same file.
SpecConcurrent == InitFew /\ [][NextConcurrent]_vars

(* ------------------------------- claims ------------------------------- *)

WorkspaceRootPath == <<"agents", "defaults", "sandbox", "workspaceRoot">>
WorkspacePath == <<"agents", "defaults", "workspace">>
Spine == {<<"agents">>, <<"agents", "defaults">>, <<"agents", "defaults", "sandbox">>}

Exited == pc = "exited"
\* HOST_WORKSPACE_ROOT is set to a non-empty string.
HostRootGiven == hostWorkspaceRoot.type = "string" /\ hostWorkspaceRoot.val # ""
FileBefore == fs0[configPath]
FileNow == fs[configPath]
\* The text is a document, strict or relaxed.
HoldsDocument(text) == text.form \in {"json", "relaxed"}
\* The text is there and is no document.
Unparseable(text) == text.form \in {"garbage", "partial", "newlineFirst"}
WriteFailed == WriteResult(fsOps) \in {"EACCES", "ENOSPC"}
WroteOk == WriteResult(fsOps) = "ok"
\* A path of a document that is neither on the way to a patched field nor
\* below one.
OffPath(q) ==
    /\ ~IsPrefix(q, WorkspaceRootPath) /\ ~IsPrefix(WorkspaceRootPath, q)
    /\ ~IsPrefix(q, WorkspacePath) /\ ~IsPrefix(WorkspacePath, q)

\* C1 (as claimed): a run with a non-empty host root on a file holding a
\* document that is a mapping, whose write does not fail, ends with the file
\* holding a document with agents.defaults.sandbox.workspaceRoot = the host
\* root and agents.defaults.workspace = "/workspace".
C1_PatchedWhenever ==
    (Exited /\ HostRootGiven /\ HoldsDocument(FileBefore)
        /\ FileBefore.doc[<< >>] = ObjectNode /\ ~WriteFailed)
    => /\ HoldsDocument(FileNow)
       /\ Get(FileNow.doc, WorkspaceRootPath) = hostWorkspaceRoot
       /\ Get(FileNow.doc, WorkspacePath) = Str("/workspace")

\* C2: after a successful run every member of the original document that is
\* off the two patched paths is in the written document with the same value,
\* at every level.
C2_OthersPreserved ==
    (Exited /\ exitCode = 0 /\ WroteOk)
    => /\ FileNow.form = "json"
       /\ \A q \in DOMAIN FileBefore.doc :
             OffPath(q) => q \in DOMAIN FileNow.doc /\ FileNow.doc[q] = FileBefore.doc[q]

FooAtDefaults ==
    With(EmptyObject, "agents",
         With(EmptyObject, "defaults", With(EmptyObject, "foo", Leaf(Num("1")))))
FooAtDefaultsPatched ==
    Graft(Graft(FooAtDefaults, <<"agents", "defaults", "sandbox">>,
                With(EmptyObject, "workspaceRoot", Leaf(Str("/data")))),
          WorkspacePath, Leaf(Str("/workspace")))
\* {"agents":{"defaults":{"foo":1}}} with host root /data keeps "foo":1.
C2_Witness ==
    /\ Exited /\ WroteOk
    /\ FileBefore.doc = FooAtDefaults
    /\ hostWorkspaceRoot = Str("/data")
    /\ FileNow = Text("json", FooAtDefaultsPatched)
    /\ FileNow.doc[<<"agents", "defaults", "foo">>] = Num("1")

\* C3: when a run has patched the file, the next run with the same host root
\* reaches its write and, the write succeeding, exits 0 and leaves the file
\* as the first run left it.
C3_Idempotent ==
    \A i \in 1..Len(hist) :
        (i < Len(hist) /\ hist[i].exitCode = 0 /\ hist[i].wrote = "ok")
        => /\ hist[i + 1].wrote # "none"
           /\ hist[i + 1].wrote = "ok"
                => hist[i + 1].exitCode = 0 /\ hist[i + 1].file = hist[i].file

C3_Witness ==
    /\ Len(hist) >= 2
    /\ hist[1].wrote = "ok" /\ hist[2].wrote = "ok"
    /\ hist[2].file = hist[1].file
    /\ <<"agents", "defaults", "sandbox", "foo">> \in DOMAIN hist[2].file.doc

\* C4 (as claimed): a run on a file that exists and cannot be parsed exits
\* non-zero and leaves the file unchanged.
C4_UnparseableFails ==
    (Exited /\ Unparseable(FileBefore)) => exitCode # 0 /\ fs = fs0

\* C4 (amended): with a non-empty host root, a run on a file that exists and
\* cannot be parsed exits 1, makes no write and leaves the file unchanged.
C4_UnparseableFailsGivenRoot ==
    (Exited /\ HostRootGiven /\ Unparseable(FileBefore))
    => exitCode = 1 /\ fs = fs0 /\ WriteResult(fsOps) = "none"

C4_Witness ==
    Exited /\ HostRootGiven /\ FileBefore = Garbage /\ exitCode = 1 /\ FileNow = Garbage

\* C5: with the host root unset or empty the run exits 0 without touching
\* the file system, whatever the file holds.
C5_NoHostRootNoop ==
    (Exited /\ ~HostRootGiven) => exitCode = 0 /\ fs = fs0 /\ fsOps = << >>

C5_Witness ==
    /\ Exited /\ hostWorkspaceRoot = Str("") /\ exitCode = 0
    /\ FileBefore = Garbage /\ FileNow = Garbage

\* C6: with a non-empty host root and no file at the resolved path the run
\* exits 0 after existsSync alone, and no file is created.
C6_MissingFileNoop ==
    (Exited /\ HostRootGiven /\ FileBefore = Absent)
    => /\ exitCode = 0
       /\ fs = fs0
       /\ fsOps = <<FsOp("existsSync", configPath, "false")>>

C6_Witness ==
    /\ Exited /\ HostRootGiven /\ FileBefore = Absent /\ FileNow = Absent
    /\ configPath = AltConfigPath /\ exitCode = 0

\* C7 (as claimed): a run exits 1 only when the file exists and does not
\* parse, or when the write fails.
C7_ExitOneOnlyParseOrWrite ==
    (Exited /\ exitCode = 1) => Unparseable(FileBefore) \/ WriteFailed

\* C8: a run writes at most once, only to the resolved config path, as its
\* last file-system call, after existsSync and readFileSync and with the
\* parsed, normalised and patched document in memory; no other file changes
\* and without a write nothing changes.
C8_SingleLastWrite ==
    /\ runs > 0 =>
          /\ \A p \in Paths \ {Resolve(env)} : fs[p] = fs0[p]
          /\ \A i \in 1..Len(fsOps) : fsOps[i].path = Resolve(env)
    /\ WriteResult(fsOps) = "none" => fs = fs0
    /\ \A i \in 1..Len(fsOps) :
          fsOps[i].op = "writeFileSync"
          => /\ i = 3 /\ Len(fsOps) = 3
             /\ fsOps[1] = FsOp("existsSync", configPath, "true")
             /\ fsOps[2] = FsOp("readFileSync", configPath, "ok")
             /\ Exited
             /\ Evaluate(configRaw) = Ok(configRaw.doc)
             /\ \A s \in Spine : IsObjectLike(Get(config, s))
             /\ Get(config, WorkspaceRootPath) = hostWorkspaceRoot
             /\ Get(config, WorkspacePath) = Str("/workspace")

C8_Witness ==
    /\ Exited /\ WroteOk /\ configPath = AltConfigPath
    /\ FileNow # FileBefore /\ fs[DefaultConfigPath] = OtherFile

\* The lines after line 24, after line 25, after line 26.
After24 == {"L25", "L26", "L31", "L36", "L41"}
After25 == {"L26", "L31", "L36", "L41"}
After26 == {"L31", "L36", "L41"}
Parsed == configRaw.doc
Normalised(s) ==
    (pc \in After24 /\ s = <<"agents">>)
    \/ (pc \in After25 /\ s = <<"agents", "defaults">>)
    \/ (pc \in After26 /\ s = <<"agents", "defaults", "sandbox">>)

\* C9 (as claimed): normalisation leaves every existing agents,
\* agents.defaults and agents.defaults.sandbox as it is, whatever its value.
C9_ExistingKept ==
    \A s \in Spine :
        (Normalised(s) /\ s \in DOMAIN Parsed) => config[s] = Parsed[s]

\* C9 (amended): normalisation makes agents, agents.defaults and
\* agents.defaults.sandbox a mapping when the key is missing or its value is
\* falsy (null, false, 0, ""), and leaves a truthy value, mapping or not, as
\* it is; every other member of the document stays as parsed.
C9_FalsyReplacedTruthyKept ==
    /\ \A s \in Spine :
          Normalised(s) =>
             IF s \in DOMAIN Parsed
                   /\ Parsed[s] \notin {Null, False, Num("0"), Str("")}
             THEN config[s] = Parsed[s]
             ELSE config[s] = ObjectNode
    /\ pc \in {"L25", "L26", "L31"} =>
          \A q \in DOMAIN Parsed : q \notin Spine => Get(config, q) = Parsed[q]

C9_Witness ==
    /\ pc = "L31"
    /\ Get(Parsed, <<"agents">>) = ObjectNode
    /\ Get(Parsed, <<"agents", "defaults">>) = ObjectNode
    /\ Get(Parsed, <<"agents", "defaults", "sandbox">>) = Str("")
    /\ Get(config, <<"agents", "defaults">>) = ObjectNode
    /\ Get(config, <<"agents", "defaults", "sandbox">>) = ObjectNode
    /\ Get(config, <<"agents", "foo">>) = Num("1")

\* C10: whatever another process writes between the script's read and its
\* write, the run goes on as the text it read decides: it reaches its write
\* exactly when patching that text does not throw, and a successful write
\* leaves the patched form of the text it read.
C10_StaleWrite ==
    LET patched == Patch(Parsed, hostWorkspaceRoot)
    IN  (Exited /\ HoldsDocument(configRaw))
        => /\ (WriteResult(fsOps) # "none") = ~patched.threw
           /\ WroteOk =>
                 /\ exitCode = 0
                 /\ hist[Len(hist)].file = Stringify(patched.value)

\* The other process's update is lost.
C10_Witness ==
    /\ Exited /\ WroteOk
    /\ otherText = Text("json", With(EmptyObject, "gateway", Leaf(Str("on"))))
    /\ configRaw = Text("relaxed", FooOnly)
    /\ FileNow = Stringify(Patch(FooOnly, hostWorkspaceRoot).value)
    /\ <<"gateway">> \notin DOMAIN FileNow.doc

====
